---- MODULE Spec2Model ----
(***************************************************************************)
(* Model of firmware/microPython/serv.py: the SERVTester SPI harness.      *)
(*                                                                         *)
(* A 32-bit word is held as two 16-bit halves [hi, lo] (value = hi*2^16 +  *)
(* lo) because the model checker's integers are 32-bit signed; shifts and  *)
(* masks of the source are computed on the halves.                         *)
(*                                                                         *)
(* The program is single threaded and every wait is a blocking sleep, so   *)
(* one bus transaction (write_word, read_response) is one step; the order  *)
(* of what it does inside is kept in the event record `bus`.               *)
(***************************************************************************)
EXTENDS Integers, Sequences, FiniteSets

VARIABLES
    cs,             \* level of the chip-select pin (active low: 0 = asserted)
    bus,            \* events seen on pin, bus and timer since the current
                    \* top-level call or suite check began (recording transport)
    pc,             \* position of the single thread of control
    stack,          \* return positions of the calls in progress
    op,             \* the top-level operation last invoked
    address,        \* write_word argument of a top-level call
    data,           \* write_word argument of a top-level call
    program,        \* load_program argument
    start_address,  \* load_program argument
    i,              \* loop index of the loop in progress
    success_count,  \* test_basic_communication local
    iterations,     \* stress_test argument
    elapsed,        \* stress_test local
    response,       \* value last returned by read_response
    t,              \* run_all_tests: index into tests of the current entry
    results,        \* run_all_tests local
    passed,         \* run_all_tests local
    total,          \* run_all_tests local
    retval,         \* value returned by the function that returned last
    exc,            \* exception raised and not (yet) handled, or "none"
    trace           \* run_all_tests: what the loop did, in order (observer)

vars == <<cs, bus, pc, stack, op, address, data, program, start_address, i,
          success_count, iterations, elapsed, response, t, results, passed, total,
          retval, exc, trace>>

-----------------------------------------------------------------------------
(* Bounds of the model *)

MaxLen == 3

-----------------------------------------------------------------------------
(* Values *)

W(h, l) == [hi |-> h, lo |-> l]

\* words the callers of the model pass: the no-op 0x00000013, 0xABCDEF00,
\* 0x12345678, the boundary values 0x00000000, 0xFFFFFFFF, and words with a
\* single byte or a single bit set
\* variant: the all-zero word
NOP_Zero == W(0, 0)

NOP == W(0, 19)

Words == {W(0, 0), NOP, W(43981, 61184), W(4660, 22136), W(65535, 65535),
          W(0, 255), W(0, 65280), W(255, 0), W(65280, 0), W(32768, 0), W(0, 256),
          W(1, 0)}

ProgWords == {NOP, W(43981, 61184)}

\* addresses a caller may pass; 256 is outside the 8-bit range
Addresses == {0, 1, 10, 127, 128, 255, 256}

Bases == {0, 10, 254, 255}

RECURSIVE SeqsUpTo(_, _)
SeqsUpTo(S, n) ==
    IF n = 0 THEN {<<>>}
    ELSE LET shorter == SeqsUpTo(S, n - 1)
         IN  shorter \cup {Append(s, x) : s \in {q \in shorter : Len(q) = n - 1}, x \in S}

\* the 16 no-op words reset_cpu writes, as a program
NopProgram == [k \in 1..16 |-> NOP]

Programs == SeqsUpTo(ProgWords, MaxLen) \cup {NopProgram}

-----------------------------------------------------------------------------
(* Events of the recording transport *)

Ev(e, v, p) == [ev |-> e, val |-> v, pkt |-> p]

CsEv(level)    == Ev("cs", level, <<>>)
SleepUs(n)     == Ev("sleep_us", n, <<>>)
SleepMs(n)     == Ev("sleep_ms", n, <<>>)
SpiWrite(p)    == Ev("spi_write", 0, p)
SpiWriteRaise  == Ev("spi_write_raise", 0, <<>>)
SpiRead(p)     == Ev("spi_read", 1, p)
SpiReadRaise   == Ev("spi_read_raise", 1, <<>>)

\* the packets written to the bus, in order
Frames(log) ==
    LET at == {k \in 1..Len(log) : log[k].ev = "spi_write"}
    IN  [n \in 1..Cardinality(at) |->
            log[CHOOSE k \in at : Cardinality({m \in at : m <= k}) = n].pkt]

-----------------------------------------------------------------------------
(* write_word: packing *)

byte0(d) == d.lo % 256
byte1(d) == (d.lo \div 256) % 256
byte2(d) == d.hi % 256
byte3(d) == (d.hi \div 256) % 256

\* variant: a build of bytes() without the range check
BytesOk_Unchecked(s) == TRUE

\* bytes([...]) raises ValueError unless every element is in range(256)
BytesOk(s) == \A k \in 1..Len(s) : s[k] \in 0..255

\* variant: data most significant byte first
packet_BigEndian(a, d) == <<a, byte3(d), byte2(d), byte1(d), byte0(d)>>

packet(a, d) == <<a, byte0(d), byte1(d), byte2(d), byte3(d)>>

\* variant: returns without the 1 ms wait
write_word_NoCompletionWait(a, d, spiFails, level, log) ==
    IF ~BytesOk(<<a>>)
    THEN [cs |-> level, bus |-> log, exc |-> "ValueError"]
    ELSE IF spiFails
    THEN [cs |-> 0,
          bus |-> log \o <<CsEv(0), SleepUs(2), SpiWriteRaise>>,
          exc |-> "OSError"]
    ELSE [cs |-> 1,
          bus |-> log \o <<CsEv(0), SleepUs(2),
                           SpiWrite(<<a, byte0(d), byte1(d), byte2(d), byte3(d)>>),
                           SleepUs(2), CsEv(1)>>,
          exc |-> "none"]

\* variant: a failed spi.write is tried again
write_word_Retry(a, d, spiFails, level, log) ==
    IF ~BytesOk(<<a>>)
    THEN [cs |-> level, bus |-> log, exc |-> "ValueError"]
    ELSE [cs |-> 1,
          bus |-> log \o (IF spiFails THEN <<CsEv(0), SleepUs(2), SpiWriteRaise>> ELSE <<>>)
                      \o <<CsEv(0), SleepUs(2),
                           SpiWrite(<<a, byte0(d), byte1(d), byte2(d), byte3(d)>>),
                           SleepUs(2), CsEv(1), SleepMs(1)>>,
          exc |-> "none"]

(* write_word: the whole call.  spiFails: the transport raises in spi.write. *)
(* Gives the pin level and the record after the call and what it raised.     *)
write_word(a, d, spiFails, level, log) ==
    IF ~BytesOk(packet(a, d))
    THEN [cs |-> level, bus |-> log, exc |-> "ValueError"]
    ELSE IF spiFails
    THEN [cs |-> 0,
          bus |-> log \o <<CsEv(0), SleepUs(2), SpiWriteRaise>>,
          exc |-> "OSError"]
    ELSE [cs |-> 1,
          bus |-> log \o <<CsEv(0), SleepUs(2), SpiWrite(packet(a, d)),
                           SleepUs(2), CsEv(1), SleepMs(1)>>,
          exc |-> "none"]

(* what spi.read(1) may do: return one byte, return nothing, or raise *)
SpiReads == {[ok |-> TRUE, bytes |-> <<165>>], [ok |-> TRUE, bytes |-> <<164>>],
             [ok |-> TRUE, bytes |-> <<>>], [ok |-> FALSE, bytes |-> <<>>]}

\* variant: an empty read is reported as 0xFF
ResponseValue_EmptyIsFF(r) == IF r # <<>> THEN r[1] ELSE 255

ResponseValue(r) == IF r # <<>> THEN r[1] ELSE 0

(* read_response: the whole call *)
read_response(rd, level, log) ==
    IF ~rd.ok
    THEN [cs |-> 0,
          bus |-> log \o <<CsEv(0), SleepUs(2), SpiReadRaise>>,
          exc |-> "OSError", value |-> 0]
    ELSE [cs |-> 1,
          bus |-> log \o <<CsEv(0), SleepUs(2), SpiRead(rd.bytes),
                           SleepUs(2), CsEv(1), SleepUs(10)>>,
          exc |-> "none", value |-> ResponseValue(rd.bytes)]

-----------------------------------------------------------------------------
(* Data of the checks *)

EXPECTED == 165

READS == 5

test_data == << [addr |-> 0,   data |-> W(4660, 22136)],
                [addr |-> 1,   data |-> W(57005, 48879)],
                [addr |-> 2,   data |-> W(51966, 47806)],
                [addr |-> 10,  data |-> W(43981, 61184)],
                [addr |-> 255, data |-> W(65535, 65535)] >>

SimpleProgram == << W(2720, 1299), W(8192, 1431), W(165, 32803), W(0, 111) >>

LoopProgram == << W(0, 1299), W(4096, 1427), W(8192, 1559), W(166, 35),
                  W(21, 1299), W(22, 1555), W(65205, 19683), W(0, 111) >>

\* variant: the carry out of the low half is dropped
Mul32_NoCarry(w, n) == W((w.hi * n) % 65536, (w.lo * n) % 65536)

\* (w * n) & 0xFFFFFFFF
Mul32(w, n) ==
    LET lo == w.lo * n
        hi == w.hi * n + (lo \div 65536)
    IN  W(hi % 65536, lo % 65536)

PATTERN_WRITES == 16

PatternAddr(k) == 100 + k
PatternData(k) == Mul32(W(4369, 4369), k + 1)

\* variant: the address cycles through 0..15
StressAddr_Mod16(k) == k % 16

StressAddr(k) == k % 256
StressData(k) == Mul32(W(257, 257), k)

SUITE_STRESS_ITERATIONS == 50

RESET_WRITES == 16

\* iterations a caller of stress_test passes
StressIterations == {0, 2, 50}

tests == << [name |-> "Basic SPI Communication", func |-> "test_basic_communication"],
            [name |-> "Memory Write (32-bit)",   func |-> "test_memory_write"],
            [name |-> "CPU Bootstrap Check",     func |-> "test_cpu_bootstrap"],
            [name |-> "Simple Custom Program",   func |-> "test_custom_program_simple"],
            [name |-> "Counting Loop Program",   func |-> "test_custom_program_loop"],
            [name |-> "Data Memory Write",       func |-> "test_data_memory_write"],
            [name |-> "Stress Test",             func |-> "stress_test"] >>

INTER_TEST_MS == 300

-----------------------------------------------------------------------------
(* Control: calls, returns and exceptions *)

Bool(b) == IF b THEN "True" ELSE "False"

Truthy(v) == v = "True"

\* the try block of run_all_tests is on the call stack
InTry == \E k \in 1..Len(stack) : stack[k] = "rat_ret"

\* a function returns v to its caller (to the prompt when there is none)
Return(v) ==
    /\ pc' = IF stack = <<>> THEN "done" ELSE Head(stack)
    /\ stack' = IF stack = <<>> THEN <<>> ELSE Tail(stack)
    /\ retval' = v
    /\ exc' = "none"

\* variant: no except clause, every exception reaches the prompt
Raise_Uncaught(e) ==
    /\ pc' = "done"
    /\ stack' = <<>>
    /\ retval' = retval
    /\ exc' = e

\* an exception unwinds to the except clause of run_all_tests when its try
\* block is active, and to the prompt otherwise
Raise(e) ==
    /\ pc' = IF InTry THEN "rat_except" ELSE "done"
    /\ stack' = <<>>
    /\ retval' = retval
    /\ exc' = e

Goto(label) ==
    /\ pc' = label
    /\ UNCHANGED <<stack, retval, exc>>

argvars == <<address, data, program, start_address, iterations>>
suitevars == <<t, results, passed, total, trace>>

-----------------------------------------------------------------------------
(* Initial state: a tester has been constructed (cs.value(1)) *)

Init ==
    /\ cs = 1
    /\ bus = <<>>
    /\ pc = "idle"
    /\ stack = <<>>
    /\ op = "none"
    /\ address = 0
    /\ data = W(0, 0)
    /\ program = <<>>
    /\ start_address = 0
    /\ i = 0
    /\ success_count = 0
    /\ iterations = 0
    /\ elapsed = 0
    /\ response = 0
    /\ t = 0
    /\ results = <<>>
    /\ passed = 0
    /\ total = 0
    /\ retval = "None"
    /\ exc = "none"
    /\ trace = <<>>

\* what every top-level call starts from: fresh locals, an empty record
Fresh(name) ==
    /\ pc = "idle"
    /\ op' = name
    /\ stack' = <<>>
    /\ retval' = "None"

-----------------------------------------------------------------------------
(* Top-level calls of the two bus primitives *)

call_write_word ==
    \E a \in Addresses, d \in Words, spiFails \in BOOLEAN :
        LET r == write_word(a, d, spiFails, cs, <<>>)
        IN  /\ Fresh("write_word")
            /\ address' = a
            /\ data' = d
            /\ cs' = r.cs
            /\ bus' = r.bus
            /\ exc' = r.exc
            /\ pc' = "done"
            /\ UNCHANGED <<program, start_address, i, success_count, iterations,
                           elapsed, response>>
            /\ UNCHANGED suitevars

call_read_response ==
    \E rd \in SpiReads :
        LET r == read_response(rd, cs, <<>>)
        IN  /\ Fresh("read_response")
            /\ cs' = r.cs
            /\ bus' = r.bus
            /\ exc' = r.exc
            /\ response' = IF r.exc = "none" THEN r.value ELSE response
            /\ pc' = "done"
            /\ UNCHANGED <<i, success_count, elapsed>>
            /\ UNCHANGED argvars
            /\ UNCHANGED suitevars

-----------------------------------------------------------------------------
(* load_program *)

\* variant: the address is reduced mod 256
LoadAddr_Wrap(base, k) == (base + k) % 256

LoadAddr(base, k) == base + k

call_load_program ==
    \E prog \in Programs, base \in Bases :
        /\ Fresh("load_program")
        /\ program' = prog
        /\ start_address' = base
        /\ i' = 0
        /\ bus' = <<>>
        /\ exc' = "none"
        /\ pc' = "load_program"
        /\ UNCHANGED <<cs, address, data, success_count, iterations, elapsed, response>>
        /\ UNCHANGED suitevars

\* one iteration of the for loop: write_word(addr, instruction)
load_program_step ==
    /\ pc = "load_program"
    /\ i < Len(program)
    /\ \E spiFails \in BOOLEAN :
        LET r == write_word(LoadAddr(start_address, i), program[i + 1], spiFails, cs, bus)
        IN  /\ cs' = r.cs
            /\ bus' = r.bus
            /\ IF r.exc = "none"
               THEN /\ i' = i + 1
                    /\ UNCHANGED <<pc, stack, retval, exc>>
               ELSE /\ Raise(r.exc)
                    /\ i' = i
    /\ UNCHANGED <<op, success_count, elapsed, response>>
    /\ UNCHANGED argvars
    /\ UNCHANGED suitevars

load_program_return ==
    /\ pc = "load_program"
    /\ i = Len(program)
    /\ Return("None")
    /\ UNCHANGED <<cs, bus, op, i, success_count, elapsed, response>>
    /\ UNCHANGED argvars
    /\ UNCHANGED suitevars

-----------------------------------------------------------------------------
(* The checks.  Each starts at the position named after it. *)

\* variant: a mismatching read starts the count again
Counted_Restart(count, value) == IF value = EXPECTED THEN count + 1 ELSE 0

\* variant: every read is counted
Counted_Always(count, value) == count + 1

\* if response == expected: success_count += 1
Counted(count, value) == IF value = EXPECTED THEN count + 1 ELSE count

\* one iteration of the read loop of test_basic_communication
test_basic_communication_step ==
    /\ pc = "test_basic_communication"
    /\ i < READS
    /\ \E rd \in SpiReads :
        LET r == read_response(rd, cs, bus)
        IN  /\ cs' = r.cs
            /\ IF r.exc = "none"
               THEN /\ response' = r.value
                    /\ success_count' = Counted(success_count, r.value)
                    /\ bus' = Append(r.bus, SleepMs(50))
                    /\ i' = i + 1
                    /\ UNCHANGED <<pc, stack, retval, exc>>
               ELSE /\ Raise(r.exc)
                    /\ bus' = r.bus
                    /\ UNCHANGED <<response, success_count, i>>
    /\ UNCHANGED <<op, elapsed>>
    /\ UNCHANGED argvars
    /\ UNCHANGED suitevars

\* variant: one matching read is enough
BasicPassed_Any(count) == count >= 1

BasicPassed(count) == count = 5

test_basic_communication_return ==
    /\ pc = "test_basic_communication"
    /\ i = READS
    /\ Return(Bool(BasicPassed(success_count)))
    /\ UNCHANGED <<cs, bus, op, i, success_count, elapsed, response>>
    /\ UNCHANGED argvars
    /\ UNCHANGED suitevars

\* one iteration of the loop over test_data
test_memory_write_step ==
    /\ pc = "test_memory_write"
    /\ i < Len(test_data)
    /\ \E spiFails \in BOOLEAN :
        LET r == write_word(test_data[i + 1].addr, test_data[i + 1].data, spiFails, cs, bus)
        IN  /\ cs' = r.cs
            /\ IF r.exc = "none"
               THEN /\ bus' = Append(r.bus, SleepMs(20))
                    /\ i' = i + 1
                    /\ UNCHANGED <<pc, stack, retval, exc>>
               ELSE /\ Raise(r.exc)
                    /\ bus' = r.bus
                    /\ i' = i
    /\ UNCHANGED <<op, success_count, elapsed, response>>
    /\ UNCHANGED argvars
    /\ UNCHANGED suitevars

test_memory_write_return ==
    /\ pc = "test_memory_write"
    /\ i = Len(test_data)
    /\ Return("True")
    /\ UNCHANGED <<cs, bus, op, i, success_count, elapsed, response>>
    /\ UNCHANGED argvars
    /\ UNCHANGED suitevars

test_cpu_bootstrap ==
    /\ pc = "test_cpu_bootstrap"
    /\ bus' = Append(bus, SleepMs(500))
    /\ Return("True")
    /\ UNCHANGED <<cs, op, i, success_count, elapsed, response>>
    /\ UNCHANGED argvars
    /\ UNCHANGED suitevars

\* self.load_program(program, start_address=0) from a check
CallLoad(prog, back) ==
    /\ program' = prog
    /\ start_address' = 0
    /\ i' = 0
    /\ pc' = "load_program"
    /\ stack' = <<back>> \o stack
    /\ UNCHANGED <<cs, bus, op, address, data, iterations, success_count, elapsed,
                   response, retval, exc>>
    /\ UNCHANGED suitevars

\* after load_program returned: the dwell, then return True
AfterLoad(ms) ==
    /\ bus' = Append(bus, SleepMs(ms))
    /\ Return("True")
    /\ UNCHANGED <<cs, op, i, success_count, elapsed, response>>
    /\ UNCHANGED argvars
    /\ UNCHANGED suitevars

test_custom_program_simple_load ==
    /\ pc = "test_custom_program_simple"
    /\ CallLoad(SimpleProgram, "test_custom_program_simple_loaded")

test_custom_program_simple_return ==
    /\ pc = "test_custom_program_simple_loaded"
    /\ AfterLoad(100)

test_custom_program_loop_load ==
    /\ pc = "test_custom_program_loop"
    /\ CallLoad(LoopProgram, "test_custom_program_loop_loaded")

test_custom_program_loop_return ==
    /\ pc = "test_custom_program_loop_loaded"
    /\ AfterLoad(200)

\* one iteration of the pattern loop
test_data_memory_write_step ==
    /\ pc = "test_data_memory_write"
    /\ i < PATTERN_WRITES
    /\ \E spiFails \in BOOLEAN :
        LET r == write_word(PatternAddr(i), PatternData(i), spiFails, cs, bus)
        IN  /\ cs' = r.cs
            /\ bus' = r.bus
            /\ IF r.exc = "none"
               THEN /\ i' = i + 1
                    /\ UNCHANGED <<pc, stack, retval, exc>>
               ELSE /\ Raise(r.exc)
                    /\ i' = i
    /\ UNCHANGED <<op, success_count, elapsed, response>>
    /\ UNCHANGED argvars
    /\ UNCHANGED suitevars

test_data_memory_write_return ==
    /\ pc = "test_data_memory_write"
    /\ i = PATTERN_WRITES
    /\ Return("True")
    /\ UNCHANGED <<cs, bus, op, i, success_count, elapsed, response>>
    /\ UNCHANGED argvars
    /\ UNCHANGED suitevars

\* one iteration of the stress loop
stress_test_step ==
    /\ pc = "stress_test"
    /\ i < iterations
    /\ \E spiFails \in BOOLEAN :
        LET r == write_word(StressAddr(i), StressData(i), spiFails, cs, bus)
        IN  /\ cs' = r.cs
            /\ bus' = r.bus
            /\ IF r.exc = "none"
               THEN /\ i' = i + 1
                    /\ UNCHANGED <<pc, stack, retval, exc>>
               ELSE /\ Raise(r.exc)
                    /\ i' = i
    /\ UNCHANGED <<op, success_count, elapsed, response>>
    /\ UNCHANGED argvars
    /\ UNCHANGED suitevars

\* milliseconds the calls recorded in log have slept at least
RECURSIVE SleptOf(_, _)
SleptOf(log, lengths) ==
    IF lengths = {} THEN 0
    ELSE LET ms == CHOOSE x \in lengths : TRUE
         IN  ms * Cardinality({k \in 1..Len(log) : log[k].ev = "sleep_ms" /\ log[k].val = ms})
             + SleptOf(log, lengths \ {ms})

SleptMs(log) ==
    SleptOf(log, {log[k].val : k \in {j \in 1..Len(log) : log[j].ev = "sleep_ms"}})

\* ticks_diff(ticks_ms(), start_time): no less than the time slept in between
\* (ms the clock shows beyond the time slept: instructions, bus transfers)
ClockExtras == {0, 1, 7}

Elapsed(log, extra) == SleptMs(log) + extra

ElapsedReadings(log) == {Elapsed(log, extra) : extra \in ClockExtras}

\* the two divisions in the report lines: elapsed/iterations, iterations*1000/elapsed
StressReportRaises(n, ms) == n = 0 \/ ms = 0

stress_test_return ==
    /\ pc = "stress_test"
    /\ i >= iterations
    /\ \E extra \in ClockExtras :
        /\ elapsed' = Elapsed(bus, extra)
        /\ IF StressReportRaises(iterations, Elapsed(bus, extra))
           THEN Raise("ZeroDivisionError")
           ELSE Return("True")
    /\ UNCHANGED <<cs, bus, op, i, success_count, response>>
    /\ UNCHANGED argvars
    /\ UNCHANGED suitevars

-----------------------------------------------------------------------------
(* Top-level calls of one check *)

call_check ==
    \E j \in 1..(Len(tests) - 1) :
        /\ Fresh(tests[j].func)
        /\ pc' = tests[j].func
        /\ bus' = <<>>
        /\ exc' = "none"
        /\ i' = 0
        /\ success_count' = 0
        /\ UNCHANGED <<cs, elapsed, response>>
        /\ UNCHANGED argvars
        /\ UNCHANGED suitevars

call_stress_test ==
    \E n \in StressIterations :
        /\ Fresh("stress_test")
        /\ pc' = "stress_test"
        /\ iterations' = n
        /\ bus' = <<>>
        /\ exc' = "none"
        /\ i' = 0
        /\ UNCHANGED <<cs, address, data, program, start_address, success_count,
                       elapsed, response>>
        /\ UNCHANGED suitevars

-----------------------------------------------------------------------------
(* run_all_tests *)

TrEv(e, j, v, ms) == [ev |-> e, test |-> j, val |-> v, ms |-> ms]

\* variant: every check is recorded as passed
Recorded_AsPassed(rs, name, value) == Append(rs, [name |-> name, result |-> "True"])

\* variant: results.insert(0, ...)
Recorded_AtFront(rs, name, value) == <<[name |-> name, result |-> value]>> \o rs

\* results.append((test_name, result))
Recorded(rs, name, value) == Append(rs, [name |-> name, result |-> value])

\* sum(1 for _, result in results if result)
PassedCount(rs) == Cardinality({k \in 1..Len(rs) : Truthy(rs[k].result)})

\* variant: success when any check passed
Overall_AnyPassed(p, n) == p >= 1

Overall(p, n) == p = n

call_run_all_tests ==
    /\ Fresh("run_all_tests")
    /\ pc' = "run_all_tests"
    /\ bus' = <<>>
    /\ exc' = "none"
    /\ t' = 1
    /\ results' = <<>>
    /\ trace' = <<>>
    /\ UNCHANGED <<cs, i, success_count, elapsed, response, passed, total>>
    /\ UNCHANGED argvars

\* the for loop reaches its next entry and calls test_func() inside try
run_all_tests_call ==
    /\ pc = "run_all_tests"
    /\ t <= Len(tests)
    /\ pc' = tests[t].func
    /\ stack' = <<"rat_ret">>
    /\ bus' = <<>>
    /\ i' = 0
    /\ success_count' = 0
    /\ iterations' = IF tests[t].func = "stress_test"
                     THEN SUITE_STRESS_ITERATIONS ELSE iterations
    /\ trace' = Append(trace, TrEv("call", t, tests[t].func, 0))
    /\ UNCHANGED <<cs, op, address, data, program, start_address, elapsed, response,
                   t, results, passed, total, retval, exc>>

\* test_func() returned: record its result, then the pause
run_all_tests_returned ==
    /\ pc = "rat_ret"
    /\ results' = Recorded(results, tests[t].name, retval)
    /\ bus' = Append(bus, SleepMs(INTER_TEST_MS))
    /\ trace' = trace \o <<TrEv("return", t, retval, 0),
                           TrEv("sleep_ms", t, "", INTER_TEST_MS)>>
    /\ t' = t + 1
    /\ Goto("run_all_tests")
    /\ UNCHANGED <<cs, op, i, success_count, elapsed, response, passed, total>>
    /\ UNCHANGED argvars

\* except Exception: record the check as failed
run_all_tests_except ==
    /\ pc = "rat_except"
    /\ results' = Recorded(results, tests[t].name, "False")
    /\ trace' = Append(trace, TrEv("raise", t, exc, 0))
    /\ t' = t + 1
    /\ pc' = "run_all_tests"
    /\ exc' = "none"
    /\ UNCHANGED <<cs, bus, op, i, success_count, elapsed, response, passed, total,
                   stack, retval>>
    /\ UNCHANGED argvars

\* the summary and the return value
run_all_tests_summary ==
    /\ pc = "run_all_tests"
    /\ t > Len(tests)
    /\ passed' = PassedCount(results)
    /\ total' = Len(results)
    /\ Return(Bool(Overall(PassedCount(results), Len(results))))
    /\ UNCHANGED <<cs, bus, op, i, success_count, elapsed, response, t, results, trace>>
    /\ UNCHANGED argvars

-----------------------------------------------------------------------------
(* reset_cpu: a new tester, then the no-op word to addresses 0..15 *)

call_reset_cpu ==
    /\ Fresh("reset_cpu")
    /\ pc' = "reset_cpu"
    /\ cs' = 1
    /\ bus' = <<CsEv(1)>>
    /\ exc' = "none"
    /\ i' = 0
    /\ UNCHANGED <<success_count, elapsed, response>>
    /\ UNCHANGED argvars
    /\ UNCHANGED suitevars

reset_cpu_step ==
    /\ pc = "reset_cpu"
    /\ i < RESET_WRITES
    /\ \E spiFails \in BOOLEAN :
        LET r == write_word(i, NOP, spiFails, cs, bus)
        IN  /\ cs' = r.cs
            /\ bus' = r.bus
            /\ IF r.exc = "none"
               THEN /\ i' = i + 1
                    /\ UNCHANGED <<pc, stack, retval, exc>>
               ELSE /\ Raise(r.exc)
                    /\ i' = i
    /\ UNCHANGED <<op, success_count, elapsed, response>>
    /\ UNCHANGED argvars
    /\ UNCHANGED suitevars

reset_cpu_return ==
    /\ pc = "reset_cpu"
    /\ i = RESET_WRITES
    /\ Return("None")
    /\ UNCHANGED <<cs, bus, op, i, success_count, elapsed, response>>
    /\ UNCHANGED argvars
    /\ UNCHANGED suitevars

-----------------------------------------------------------------------------
(* Back at the prompt: the locals of the finished call are gone, the tester *)
(* and its pin stay as they are.                                            *)

Prompt ==
    /\ pc = "done"
    /\ pc' = "idle"
    /\ bus' = <<>>
    /\ stack' = <<>>
    /\ op' = "none"
    /\ address' = 0
    /\ data' = W(0, 0)
    /\ program' = <<>>
    /\ start_address' = 0
    /\ i' = 0
    /\ success_count' = 0
    /\ iterations' = 0
    /\ elapsed' = 0
    /\ response' = 0
    /\ t' = 0
    /\ results' = <<>>
    /\ passed' = 0
    /\ total' = 0
    /\ retval' = "None"
    /\ exc' = "none"
    /\ trace' = <<>>
    /\ UNCHANGED cs

-----------------------------------------------------------------------------

Next ==
    \/ call_write_word
    \/ call_read_response
    \/ call_load_program
    \/ load_program_step
    \/ load_program_return
    \/ call_check
    \/ call_stress_test
    \/ test_basic_communication_step
    \/ test_basic_communication_return
    \/ test_memory_write_step
    \/ test_memory_write_return
    \/ test_cpu_bootstrap
    \/ test_custom_program_simple_load
    \/ test_custom_program_simple_return
    \/ test_custom_program_loop_load
    \/ test_custom_program_loop_return
    \/ test_data_memory_write_step
    \/ test_data_memory_write_return
    \/ stress_test_step
    \/ stress_test_return
    \/ call_run_all_tests
    \/ run_all_tests_call
    \/ run_all_tests_returned
    \/ run_all_tests_except
    \/ run_all_tests_summary
    \/ call_reset_cpu
    \/ reset_cpu_step
    \/ reset_cpu_return
    \/ Prompt

Spec == Init /\ [][Next]_vars

\* a call in progress takes its next step: every bus operation and every wait
\* returns or raises, and nothing else can hold the single thread up
Running == pc \notin {"idle", "done"} /\ Next

LiveSpec == Init /\ [][Next]_vars /\ WF_vars(Running)

-----------------------------------------------------------------------------
(* Properties *)

\* positions of the record, or of the suite trace, holding an event of one kind
At(log, kind) == {k \in 1..Len(log) : log[k].ev = kind}

\* the run_all_tests call is over
SuiteDone == op = "run_all_tests" /\ pc = "done"

\* the order in which run_all_tests is meant to run the checks
FixedOrder == << "test_basic_communication", "test_memory_write", "test_cpu_bootstrap",
                 "test_custom_program_simple", "test_custom_program_loop",
                 "test_data_memory_write", "stress_test" >>

\* C1: when run_all_tests is over, each of the 7 checks has been invoked
\* (once) and the total it reports is 7, whatever the checks returned or raised.
C1_EveryCheckRuns ==
    SuiteDone =>
        /\ total = 7
        /\ \A j \in 1..7 :
            Cardinality({k \in At(trace, "call") : trace[k].val = FixedOrder[j]}) = 1

\* a finished run in which the first check returned False and a later one raised
C1_Witness ==
    /\ SuiteDone
    /\ total = 7
    /\ \E k \in At(trace, "return") : trace[k].test = 1 /\ trace[k].val = "False"
    /\ \E k \in At(trace, "raise") : trace[k].test = 2
    /\ \E k \in At(trace, "call") : trace[k].test = 7

\* C2: the packet of a write_word(address, data) call with address in 0..255 has
\* 5 bytes, the address first, then the bytes of data least significant first;
\* (10, 0xABCDEF00) gives [10, 0x00, 0xEF, 0xCD, 0xAB].
C2_PacketLittleEndian ==
    /\ \A k \in At(bus, "spi_write") :
        /\ Len(bus[k].pkt) = 5
        /\ \A b \in 1..5 : bus[k].pkt[b] \in 0..255
    /\ (op = "write_word" /\ pc = "done" /\ exc = "none") =>
        /\ address \in 0..255
        /\ Len(Frames(bus)) = 1
        /\ LET p == Frames(bus)[1]
           IN  /\ p[1] = address
               /\ p[2] + 256 * p[3] = data.lo
               /\ p[4] + 256 * p[5] = data.hi
               /\ (address = 10 /\ data = W(43981, 61184)) => p = <<10, 0, 239, 205, 171>>

C2_Witness ==
    /\ op = "write_word" /\ pc = "done" /\ exc = "none"
    /\ address = 10
    /\ data = W(43981, 61184)
    /\ Frames(bus) = << <<10, 0, 239, 205, 171>> >>

\* the transport did not fail during the load_program call that is over
LoadDoneNoBusError == op = "load_program" /\ pc = "done" /\ exc # "OSError"

\* C3 as stated: on a non-failing transport load_program issues len(program)
\* writes, the i-th to address (base + i) mod 256 with the i-th word.
C3_WrapsMod256 ==
    LoadDoneNoBusError =>
        Frames(bus) = [k \in 1..Len(program) |->
                          <<(start_address + k - 1) % 256,
                            byte0(program[k]), byte1(program[k]),
                            byte2(program[k]), byte3(program[k])>>]

\* C3 amended: on a non-failing transport load_program writes, in ascending
\* offset order, the i-th word to address base + i for the offsets with
\* base + i <= 255: all len(program) of them when base + len(program) - 1 <= 255,
\* and otherwise only the first 256 - base, after which it raises ValueError.
C3_StopsAt255 ==
    LoadDoneNoBusError =>
        LET fits == start_address + Len(program) - 1 <= 255
            n == IF fits THEN Len(program) ELSE 256 - start_address
        IN  /\ Frames(bus) = [k \in 1..n |->
                                <<start_address + k - 1,
                                  byte0(program[k]), byte1(program[k]),
                                  byte2(program[k]), byte3(program[k])>>]
            /\ exc = IF fits THEN "none" ELSE "ValueError"

\* a load at base 254 of three words: two frames, then the error
C3_Witness ==
    /\ LoadDoneNoBusError
    /\ start_address = 254
    /\ Len(program) = 3
    /\ Len(Frames(bus)) = 2
    /\ exc = "ValueError"

\* C4: every write that put a packet on the bus did so between select asserted +
\* 2 us and 2 us + select deasserted + 1 ms, in this order; a write_word call
\* that returned left exactly these six events; and select is never asserted
\* after a packet went out without the 1 ms wait of that write in between.
C4_WriteTransaction ==
    /\ \A q \in At(bus, "spi_write") :
        /\ q >= 3 /\ q + 3 <= Len(bus)
        /\ bus[q - 2] = CsEv(0)
        /\ bus[q - 1] = SleepUs(2)
        /\ Len(bus[q].pkt) = 5
        /\ bus[q + 1] = SleepUs(2)
        /\ bus[q + 2] = CsEv(1)
        /\ bus[q + 3] = SleepMs(1)
    /\ (op = "write_word" /\ pc = "done" /\ exc = "none") =>
        /\ Len(bus) = 6
        /\ bus[3].ev = "spi_write"
        /\ bus[3].pkt[1] = address
    /\ (pc = "load_program") => Cardinality(At(bus, "spi_write")) = i
    /\ \A p \in At(bus, "spi_write") :
        \A q \in At(bus, "cs") :
            (q > p /\ bus[q].val = 0) =>
                \E r \in (p + 1)..(q - 1) : bus[r] = SleepMs(1)

\* two writes of one load_program call have completed
C4_Witness ==
    /\ pc = "load_program"
    /\ i = 2
    /\ Len(bus) = 12
    /\ bus[7] = CsEv(0)
    /\ bus[6] = SleepMs(1)

\* C5: the value run_all_tests returns is True exactly when every recorded
\* outcome passed; it is False whenever a check returned False or raised.
C5_OverallSuccess ==
    SuiteDone =>
        /\ retval \in {"True", "False"}
        /\ (retval = "True") <=> (\A k \in 1..Len(results) : results[k].result = "True")
        /\ passed = Cardinality({k \in 1..Len(results) : results[k].result = "True"})
        /\ total = Len(results)
        /\ (\E k \in At(trace, "raise") : TRUE) => retval = "False"
        /\ (\E k \in At(trace, "return") : trace[k].val = "False") => retval = "False"

\* a run in which all 7 checks passed
C5_Witness ==
    /\ SuiteDone
    /\ retval = "True"
    /\ passed = 7
    /\ total = 7

\* the load_program call in progress or just over
InLoad == op = "load_program"

\* C6: once the transport has failed in a write of load_program, the call is
\* over with that error raised to the caller; the failed write is the last thing
\* on the bus, it was attempted once, and the frames of the offsets before it,
\* and only those, are on the bus.
C6_LoadFailsFast ==
    InLoad =>
        \A q \in At(bus, "spi_write_raise") :
            /\ pc = "done"
            /\ exc = "OSError"
            /\ q = Len(bus)
            /\ Cardinality(At(bus, "spi_write_raise")) = 1
            /\ i < Len(program)
            /\ Cardinality({k \in At(bus, "cs") : bus[k].val = 0}) = i + 1
            /\ Frames(bus) = [k \in 1..i |-> packet(start_address + k - 1, program[k])]

\* the third write of a three-word load failed: two frames stay on the bus
C6_Witness ==
    /\ InLoad
    /\ pc = "done"
    /\ exc = "OSError"
    /\ Len(program) = 3
    /\ i = 2
    /\ Len(Frames(bus)) = 2
    /\ bus[Len(bus)] = SpiWriteRaise

\* the trace events that end check j: its return, or the error it raised
Ended(j) == {k \in 1..Len(trace) : trace[k].test = j /\ trace[k].ev \in {"return", "raise"}}

\* C7: in run_all_tests every check that has ended is recorded once, under its
\* own name: with False when it raised, with the boolean it returned otherwise;
\* and no error leaves run_all_tests.
C7_OneOutcomePerCheck ==
    (op = "run_all_tests") =>
        /\ exc # "none" => pc = "rat_except"
        /\ pc \notin {"rat_ret", "rat_except"} =>
            /\ Len(results) = Cardinality({j \in 1..7 : Ended(j) # {}})
            /\ \A j \in 1..Len(results) :
                /\ Cardinality(Ended(j)) = 1
                /\ results[j].name = tests[j].name
                /\ \A k \in Ended(j) :
                    /\ results[j].result \in {"True", "False"}
                    /\ trace[k].ev = "raise" => results[j].result = "False"
                    /\ trace[k].ev = "return" => results[j].result = trace[k].val

\* a raising check and a check that returned False, both recorded
C7_Witness ==
    /\ op = "run_all_tests"
    /\ pc = "run_all_tests"
    /\ Len(results) = 2
    /\ results[1].result = "False"
    /\ results[2].result = "False"
    /\ \E k \in Ended(1) : trace[k].ev = "return"
    /\ \E k \in Ended(2) : trace[k].ev = "raise"

\* the outcome list of the step before is the head of the outcome list after it
GrowsByAppending ==
    (op = "run_all_tests" /\ op' = "run_all_tests") =>
        \/ results' = results
        \/ /\ Len(results') = Len(results) + 1
           /\ SubSeq(results', 1, Len(results)) = results

\* C8: run_all_tests calls the checks in the fixed order, each after the one
\* before it has ended; the j-th outcome is that of the j-th check; and the
\* outcome list only grows by appending.
C8_FixedOrderAppendOnly ==
    /\ [](op = "run_all_tests" =>
            /\ \A k \in At(trace, "call") :
                /\ trace[k].val = FixedOrder[trace[k].test]
                /\ Cardinality({m \in At(trace, "call") : m < k}) = trace[k].test - 1
                /\ k > 1 => /\ trace[k - 1].ev \in {"sleep_ms", "raise"}
                            /\ trace[k - 1].test = trace[k].test - 1
            /\ \A j \in 1..Len(results) :
                results[j].name = << "Basic SPI Communication", "Memory Write (32-bit)",
                                     "CPU Bootstrap Check", "Simple Custom Program",
                                     "Counting Loop Program", "Data Memory Write",
                                     "Stress Test" >>[j])
    /\ [][GrowsByAppending]_vars

\* the seventh check is running after six recorded outcomes
C8_Witness ==
    /\ op = "run_all_tests"
    /\ pc = "stress_test"
    /\ Len(results) = 6
    /\ results[6].name = "Data Memory Write"

\* C9 as stated: every call of a check after the first is directly preceded by
\* the 300 ms pause.
C9_PauseBeforeEveryCheck ==
    (op = "run_all_tests") =>
        \A k \in At(trace, "call") :
            k > 1 => /\ trace[k - 1].ev = "sleep_ms"
                     /\ trace[k - 1].ms = 300

\* the values the read_response calls recorded in log returned
ReadValues(log) ==
    [n \in 1..Cardinality(At(log, "spi_read")) |->
        LET k == CHOOSE k \in At(log, "spi_read") :
                    Cardinality({m \in At(log, "spi_read") : m <= k}) = n
        IN  IF log[k].pkt = <<>> THEN 0 ELSE log[k].pkt[1]]

\* test_basic_communication has just returned (to the prompt, or to run_all_tests)
BasicReturned ==
    \/ op = "test_basic_communication" /\ pc = "done" /\ exc = "none"
    \/ op = "run_all_tests" /\ pc = "rat_ret" /\ t = 1

\* C10: test_basic_communication returns True exactly when each of its 5 reads
\* returned 0xA5 (an empty read counts as 0, so as a mismatch).
C10_AllFiveReads ==
    BasicReturned =>
        /\ Len(ReadValues(bus)) = 5
        /\ (retval = "True") <=> (\A n \in 1..5 : ReadValues(bus)[n] = 165)
        /\ (retval = "False") <=> (\E n \in 1..5 : ReadValues(bus)[n] # 165)

\* four reads of 0xA5 and one empty read: False
C10_Witness ==
    /\ BasicReturned
    /\ retval = "False"
    /\ success_count = 4
    /\ \E k \in At(bus, "spi_read") : bus[k].pkt = <<>>

\* the status-read check has returned after reading 0xA5, 0xA5, 0xA4, 0xA5, 0xA5
ThirdReadA4 == BasicReturned /\ ReadValues(bus) = <<165, 165, 164, 165, 165>>

\* C11 as stated: with 0xA4 on the third read and 0xA5 on the others the check
\* fails and its success count is 2.
C11_CountIsTwo ==
    ThirdReadA4 => (retval = "False" /\ success_count = 2)

\* C11 amended: with 0xA4 on the third read and 0xA5 on the others the check
\* fails and its success count is 4 (it is 2 right after the third read, and
\* the fourth and fifth reads are still made and counted).
C11_CountIsFour ==
    /\ ThirdReadA4 => (retval = "False" /\ success_count = 4)
    /\ (pc = "test_basic_communication" /\ ReadValues(bus) = <<165, 165, 164>>) =>
            success_count = 2

C11_Witness ==
    /\ ThirdReadA4
    /\ op = "test_basic_communication"
    /\ retval = "False"
    /\ success_count = 4

\* stress_test(50) is over (at the prompt, or back in run_all_tests, where a
\* raise shows as the except clause) and spi.write never failed in it
Stress50Over ==
    /\ iterations = 50
    /\ At(bus, "spi_write_raise") = {}
    /\ \/ op = "stress_test" /\ pc = "done"
       \/ op = "run_all_tests" /\ t = 7 /\ pc \in {"rat_ret", "rat_except"}

\* C12: stress_test(50) on a non-failing transport issues exactly 50 writes, the
\* i-th to address i (0..49), returns True and raises nothing, whatever the
\* elapsed time it measured.
C12_StressFifty ==
    Stress50Over =>
        /\ Len(Frames(bus)) = 50
        /\ \A k \in 1..50 : Frames(bus)[k][1] = k - 1
        /\ exc = "none"
        /\ pc # "rat_except"
        /\ retval = "True"
        /\ elapsed >= 50

\* a finished stress_test(50) that measured more than the time it slept
C12_Witness ==
    /\ Stress50Over
    /\ op = "stress_test"
    /\ retval = "True"
    /\ elapsed = 57
    /\ Len(Frames(bus)) = 50

\* C13: a read_response call that returned has asserted select, waited 2 us,
\* read one byte, waited 2 us, deasserted select and waited 10 us, in this
\* order; it returned the byte read, or 0 when the read yielded nothing.
C13_ReadTransaction ==
    /\ \A q \in At(bus, "spi_read") :
        /\ q >= 3 /\ q + 3 <= Len(bus)
        /\ bus[q - 2] = CsEv(0)
        /\ bus[q - 1] = SleepUs(2)
        /\ bus[q].val = 1
        /\ Len(bus[q].pkt) <= 1
        /\ bus[q + 1] = SleepUs(2)
        /\ bus[q + 2] = CsEv(1)
        /\ bus[q + 3] = SleepUs(10)
    /\ (op = "read_response" /\ pc = "done" /\ exc = "none") =>
        /\ Len(bus) = 6
        /\ bus[3].ev = "spi_read"
        /\ bus[3].pkt # <<>> => response = bus[3].pkt[1]
        /\ bus[3].pkt = <<>> => response = 0

\* a read that yielded nothing was returned as 0
C13_Witness ==
    /\ op = "read_response" /\ pc = "done" /\ exc = "none"
    /\ bus[3] = SpiRead(<<>>)
    /\ response = 0
    /\ cs = 1

\* C14: every run_all_tests call that has begun reaches its summary and
\* reports the passed and total counts, whatever the checks do.
C14_SuiteTerminates ==
    (op = "run_all_tests" /\ pc # "done")
        ~> (SuiteDone /\ total = Len(results) /\ passed \in 0..total)

\* a finished run in which only the bootstrap check, which cannot fail, passed
C14_Witness ==
    /\ SuiteDone
    /\ total = 7
    /\ passed = 1
    /\ results[3].result = "True"

\* 16 frames, to addresses 0..15 in ascending order, each with 0x00000013
NopFrames == [k \in 1..16 |-> <<k - 1, 19, 0, 0, 0>>]

\* C15: on a non-failing transport reset_cpu and load_program([0x00000013]*16, 0)
\* put the same frames on the bus: 16 writes to addresses 0..15 in ascending
\* order, each carrying 0x00000013.
C15_ResetIsNopLoad ==
    /\ (op = "reset_cpu" /\ pc = "done" /\ exc = "none") => Frames(bus) = NopFrames
    /\ (op = "load_program" /\ pc = "done" /\ exc = "none"
            /\ Len(program) = 16 /\ start_address = 0) =>
        /\ program = [k \in 1..16 |-> W(0, 19)]
        /\ Frames(bus) = NopFrames

\* reset_cpu is over and its 16 frames are on the bus
C15_Witness ==
    /\ op = "reset_cpu" /\ pc = "done" /\ exc = "none"
    /\ Len(Frames(bus)) = 16
    /\ Frames(bus)[16] = <<15, 19, 0, 0, 0>>

\* the same frames after the load of the 16 no-op words at address 0
C15_LoadWitness ==
    /\ op = "load_program" /\ pc = "done" /\ exc = "none"
    /\ Len(program) = 16 /\ start_address = 0
    /\ Frames(bus) = NopFrames

\* test_data_memory_write has returned (to the prompt, or to run_all_tests)
PatternReturned ==
    \/ op = "test_data_memory_write" /\ pc = "done" /\ exc = "none"
    \/ op = "run_all_tests" /\ pc = "rat_ret" /\ t = 6

\* C16: test_data_memory_write on a non-failing transport issues 16 writes, the
\* i-th to address 100 + i with data (0x11111111 * (i+1)) mod 2^32 (every byte
\* 0x11 * (i+1) for i < 15, and 0x11111110 for i = 15), and returns True.
C16_PatternWrites ==
    PatternReturned =>
        /\ retval = "True"
        /\ Len(Frames(bus)) = 16
        /\ \A k \in 1..15 : Frames(bus)[k] = <<99 + k, 17 * k, 17 * k, 17 * k, 17 * k>>
        /\ Frames(bus)[16] = <<115, 16, 17, 17, 17>>

C16_Witness ==
    /\ PatternReturned
    /\ op = "test_data_memory_write"
    /\ retval = "True"
    /\ Frames(bus)[16] = <<115, 16, 17, 17, 17>>
    /\ Frames(bus)[15] = <<114, 255, 255, 255, 255>>

\* C17 as stated: select is deasserted whenever no write_word or read_response
\* call is in progress (a transaction is one step of the model, so that is in
\* every state), also after a call that raised a transport error.
C17_SelectDeassertedAtRest == cs = 1

\* the 0xA5 reads among the first n reads recorded
Matches(log, n) == Cardinality({m \in 1..n : ReadValues(log)[m] = 165})

\* C18: test_basic_communication makes exactly 5 reads in every run in which no
\* read raises, whatever the values read: while it runs it has made i reads and
\* counted the 0xA5 among them, it does not return before the fifth, and the
\* success count it returns with is the number of reads that gave 0xA5.
C18_FiveReadsAlways ==
    /\ (pc = "test_basic_communication" /\ exc = "none") =>
        /\ i <= 5
        /\ Len(ReadValues(bus)) = i
        /\ success_count = Matches(bus, i)
    /\ BasicReturned =>
        /\ i = 5
        /\ Cardinality(At(bus, "spi_read")) = 5
        /\ Cardinality({k \in At(bus, "cs") : bus[k].val = 0}) = 5
        /\ success_count = Matches(bus, 5)

\* the first read mismatched and the four after it were still made and counted
C18_Witness ==
    /\ BasicReturned
    /\ ReadValues(bus) = <<164, 165, 165, 165, 165>>
    /\ success_count = 4

\* a step that calls write_word with an address outside 0..255: from the
\* prompt, or as the next write of load_program
CallsOutOfRange ==
    \/ pc = "idle" /\ op' = "write_word" /\ address' \notin 0..255
    \/ /\ pc = "load_program" /\ i < Len(program)
       /\ start_address + i \notin 0..255
       /\ pc' # pc

\* C19: a write_word call with an address outside 0..255 raises ValueError
\* before select is asserted and before anything is transmitted: the pin keeps
\* its level, nothing is added to the bus, and the frames load_program wrote
\* for the earlier offsets stay as they are.
C19_OutOfRangeTouchesNothing ==
    /\ [][CallsOutOfRange =>
            /\ exc' = "ValueError"
            /\ cs' = cs
            /\ bus' = IF pc = "idle" THEN <<>> ELSE bus]_vars
    /\ []((op = "load_program" /\ pc = "done" /\ exc = "ValueError") =>
            /\ start_address + i = 256
            /\ Frames(bus) = [k \in 1..i |-> packet(start_address + k - 1, program[k])]
            /\ bus[Len(bus)] = SleepMs(1))

\* write_word(256, ...) on a tester whose select was left asserted: nothing moved
C19_Witness ==
    /\ op = "write_word" /\ pc = "done"
    /\ address = 256
    /\ exc = "ValueError"
    /\ bus = <<>>
    /\ cs = 0

=============================================================================
